---------------------------- MODULE Spec2Model ----------------------------
(***************************************************************************)
(* gocryptfs: the config file (package configfile: Create, Load,           *)
(* LoadAndDecrypt, DecryptMasterKey, EncryptKey, WriteFile) and the file   *)
(* name transformation (package nametransform: EncryptName, decryptName).  *)
(*                                                                         *)
(* Byte buffers are sequences of numbers 0..255.  The cryptographic        *)
(* primitives are symbolic: a scrypt hash is the term of its inputs, an    *)
(* AEAD ciphertext is the term of the key and payload it was sealed with,  *)
(* and opening it succeeds exactly when the key matches and the bytes      *)
(* were not altered.                                                       *)
(***************************************************************************)
EXTENDS Integers, Sequences, FiniteSets, TLC

VARIABLES
    disk,   \* path -> content of the file at that path
    cf,     \* the ConfFile object the running operation holds in memory
    pc,     \* position of the running operation inside WriteFile
    ret,    \* what the last finished operation returned
    hist,   \* history: what was sealed into the file at the config's name
    pend,   \* history: what is sealed into the in-memory cf being written
    mem,    \* the key buffers as the last key operation left them
    nt,     \* the NameTransform instance
    nm,     \* the last name operation: its inputs and what it returned
    cli     \* the last command line handled: its arguments and the outcome

cfgVars == <<disk, cf, pc, ret, hist, pend, mem>>
nameVars == <<nt, nm>>
cliVars == <<cli>>
vars == <<disk, cf, pc, ret, hist, pend, mem, nt, nm, cli>>

-----------------------------------------------------------------------------
(* Bounds of the model *)

\* passwords are the one-byte strings <<1>> .. <<NumPasswords>>
NumPasswords == 2
\* contents the random number generator may return for a master key
NumKeys == 2
\* contents the random number generator may return for a scrypt salt
NumSalts == 1

-----------------------------------------------------------------------------
(* Program constants *)

\* cryptocore.KeyLen: the master key is 32 bytes
KeyLen == 32
\* scrypt defaults: salt length, R, P, derived key length
ScryptSaltLen == 32
ScryptDefaultR == 8
ScryptDefaultP == 1
\* contentenc.CurrentVersion
CurrentVersion == 2
\* contentenc.DefaultIVBits and the pre-HKDF nonce length, in bits
DefaultIVBits == 128
LegacyIVBits == 96
\* AEAD tag length in bytes
TagLen == 16
\* exitcodes.PasswordIncorrect, exitcodes.DeprecatedFS
PasswordIncorrect == 12
DeprecatedFS == 16

\* file names are sequences of string pieces, so that a suffix can be appended
ConfDefaultName == <<"gocryptfs.conf">>

-----------------------------------------------------------------------------
(* Values *)

Bytes(n, b) == [i \in 1..n |-> b]
Zeroed(buf) == [i \in 1..Len(buf) |-> 0]

EmptyPassword == <<>>
Passwords == {Bytes(1, p) : p \in 1..NumPasswords}
LogNs == {10, 16}

ErrNil == [kind |-> "nil", msg |-> "", code |-> 0]
ErrPlain(m) == [kind |-> "error", msg |-> m, code |-> 0]
\* exitcodes.NewErr
NewErr(m, c) == [kind |-> "exitcode", msg |-> m, code |-> c]

NilKey == <<>>
NilCf == [isNil |-> TRUE]

NoFile == [kind |-> "none"]
EmptyFile == [kind |-> "empty"]

-----------------------------------------------------------------------------
(* Feature flags *)

knownFlags ==
    [FlagPlaintextNames |-> "PlaintextNames",
     FlagDirIV |-> "DirIV",
     FlagEMENames |-> "EMENames",
     FlagGCMIV128 |-> "GCMIV128",
     FlagLongNames |-> "LongNames",
     FlagAESSIV |-> "AESSIV",
     FlagRaw64 |-> "Raw64",
     FlagHKDF |-> "HKDF",
     FlagFIDO2 |-> "FIDO2",
     FlagLongNameMax |-> "LongNameMax"]

KnownTokens == {knownFlags[i] : i \in DOMAIN knownFlags}

requiredFlagsPlaintextNames == <<"FlagGCMIV128", "FlagHKDF">>
requiredFlagsNormal ==
    <<"FlagGCMIV128", "FlagHKDF", "FlagDirIV", "FlagEMENames",
      "FlagLongNames", "FlagRaw64">>

isFeatureFlagKnown(flag) == \E i \in DOMAIN knownFlags : knownFlags[i] = flag

IsFeatureFlagSet(c, flagWant) ==
    \E j \in 1..Len(c.FeatureFlags) : c.FeatureFlags[j] = knownFlags[flagWant]

-----------------------------------------------------------------------------
(* scrypt and the AEAD used for key wrapping (symbolic) *)

\* NewScryptKDF: fresh salt (drawn by the caller of this operator), N = 2^logN
NewScryptKDF(logN, salt) ==
    [Salt |-> salt, N |-> 2 ^ logN, R |-> ScryptDefaultR, P |-> ScryptDefaultP,
     KeyLen |-> KeyLen]

\* ScryptKDF.DeriveKey: the hash is determined by the password and every
\* scrypt parameter; distinct inputs give distinct hashes
DeriveKey(s, pw) ==
    [pw |-> pw, salt |-> s.Salt, N |-> s.N, R |-> s.R, P |-> s.P, len |-> s.KeyLen]

\* getKeyEncrypter: 128-bit nonces with HKDF, 96-bit nonces without
getKeyEncrypter(scryptHash, useHKDF) ==
    [key |-> scryptHash,
     IVLen |-> IF useHKDF THEN DefaultIVBits ELSE LegacyIVBits,
     useHKDF |-> useHKDF]

\* length in bytes of a complete ciphertext block: nonce, payload, tag
FullLen(ct) == (ct.IVLen \div 8) + Len(ct.payload) + TagLen

\* ContentEnc.EncryptBlock
EncryptBlock(ce, plaintext, blockNo, fileID) ==
    [key |-> ce.key, IVLen |-> ce.IVLen, useHKDF |-> ce.useHKDF,
     blockNo |-> blockNo, fileID |-> fileID, payload |-> plaintext,
     len |-> (ce.IVLen \div 8) + Len(plaintext) + TagLen, tagOk |-> TRUE]

\* ContentEnc.DecryptBlock: a block shorter than the nonce is rejected, and so
\* is every block the AEAD does not authenticate
DecryptBlock(ce, ct, blockNo, fileID) ==
    IF ct.len < ce.IVLen \div 8
    THEN [plaintext |-> <<>>, err |-> ErrPlain("Block is too short")]
    ELSE IF \/ ct.len < FullLen(ct)
            \/ ~ct.tagOk
            \/ ct.key # ce.key
            \/ ct.IVLen # ce.IVLen
            \/ ct.useHKDF # ce.useHKDF
            \/ ct.blockNo # blockNo
            \/ ct.fileID # fileID
    THEN [plaintext |-> <<>>, err |-> ErrPlain("cipher: message authentication failed")]
    ELSE [plaintext |-> ct.payload, err |-> ErrNil]

-----------------------------------------------------------------------------
(* ConfFile operations *)

\* the error DecryptMasterKey returns when the unwrap fails
\* (a variant that hands the cause through is DecryptErrPassThrough)
DecryptErrPassThrough(cause) == cause
DecryptErr(cause) == NewErr("Password incorrect.", PasswordIncorrect)

\* ConfFile.DecryptMasterKey
DecryptMasterKey(c, password) ==
    LET scryptHash == DeriveKey(c.ScryptObject, password)
        useHKDF == IsFeatureFlagSet(c, "FlagHKDF")
        ce == getKeyEncrypter(scryptHash, useHKDF)
        r == DecryptBlock(ce, c.EncryptedKey, 0, <<>>)
    IN  IF r.err # ErrNil
        THEN [masterkey |-> NilKey, err |-> DecryptErr(r.err)]
        ELSE [masterkey |-> r.plaintext, err |-> ErrNil]

\* a variant of EncryptKey that stores the new scrypt parameters but leaves a
\* key that is already wrapped as it is
EncryptKeyKeepWrapped(c, key, password, logN, salt) ==
    LET so == NewScryptKDF(logN, salt)
        scryptHash == DeriveKey(so, password)
        useHKDF == IsFeatureFlagSet(c, "FlagHKDF")
        ce == getKeyEncrypter(scryptHash, useHKDF)
    IN  IF c.EncryptedKey # <<>>
        THEN [c EXCEPT !.ScryptObject = so]
        ELSE [c EXCEPT !.ScryptObject = so,
                       !.EncryptedKey = EncryptBlock(ce, key, 0, <<>>)]

\* ConfFile.EncryptKey; salt is what the random number generator returns
EncryptKey(c, key, password, logN, salt) ==
    LET so == NewScryptKDF(logN, salt)
        scryptHash == DeriveKey(so, password)
        useHKDF == IsFeatureFlagSet(c, "FlagHKDF")
        ce == getKeyEncrypter(scryptHash, useHKDF)
    IN  [c EXCEPT !.ScryptObject = so,
                  !.EncryptedKey = EncryptBlock(ce, key, 0, <<>>)]

\* the buffer DeriveKey returns: KeyLen bytes of key material
KekBuffer(scryptHash) == [len |-> scryptHash.len, zero |-> FALSE]

\* the loop "for i := range scryptHash { scryptHash[i] = 0 }"
\* (a variant that leaves the buffer as it is is PurgeScryptHashSkip)
PurgeScryptHashSkip(buf) == buf
PurgeScryptHash(buf) == [buf EXCEPT !.zero = TRUE]

\* ContentEnc.Wipe: the key encrypter gives up its keys
Wipe(ce) == [IVLen |-> ce.IVLen, useHKDF |-> ce.useHKDF, wiped |-> TRUE]

NoMem ==
    [fn |-> "none", scryptHash |-> [len |-> 0, zero |-> TRUE],
     ce |-> [IVLen |-> 0, useHKDF |-> FALSE, wiped |-> TRUE], key |-> <<>>]

\* the buffers of DecryptMasterKey when it returns, with or without an error
DecryptMasterKeyMem(c, password) ==
    LET scryptHash == DeriveKey(c.ScryptObject, password)
        useHKDF == IsFeatureFlagSet(c, "FlagHKDF")
        ce == getKeyEncrypter(scryptHash, useHKDF)
    IN  [fn |-> "DecryptMasterKey",
         scryptHash |-> PurgeScryptHash(KekBuffer(scryptHash)),
         ce |-> Wipe(ce), key |-> <<>>]

\* the buffers of EncryptKey when it returns; key is the caller's buffer
EncryptKeyMem(c, key, password, logN, salt) ==
    LET so == NewScryptKDF(logN, salt)
        scryptHash == DeriveKey(so, password)
        useHKDF == IsFeatureFlagSet(c, "FlagHKDF")
        ce == getKeyEncrypter(scryptHash, useHKDF)
    IN  [fn |-> "EncryptKey",
         scryptHash |-> PurgeScryptHash(KekBuffer(scryptHash)),
         ce |-> Wipe(ce), key |-> key]

\* json.MarshalIndent(cf): the exported fields; filename is not exported
Marshal(c) ==
    [Creator |-> c.Creator, EncryptedKey |-> c.EncryptedKey,
     ScryptObject |-> c.ScryptObject, Version |-> c.Version,
     FeatureFlags |-> c.FeatureFlags, FIDO2 |-> c.FIDO2]

\* json.Unmarshal(js, &cf) into a ConfFile whose filename is already set
Unmarshal(obj, filename) ==
    [Creator |-> obj.Creator, EncryptedKey |-> obj.EncryptedKey,
     ScryptObject |-> obj.ScryptObject, Version |-> obj.Version,
     FeatureFlags |-> obj.FeatureFlags, FIDO2 |-> obj.FIDO2,
     filename |-> filename]

JsonFile(obj) == [kind |-> "json", obj |-> obj]
PartialFile == [kind |-> "partial"]
GarbageFile == [kind |-> "garbage"]

\* a variant of CreateFlags that sets AESSIV whenever FIDO2 is set
CreateFlagsMixed(plaintextNames, aessiv, fido2CredentialID) ==
    <<knownFlags.FlagGCMIV128, knownFlags.FlagHKDF>>
    \o (IF plaintextNames
        THEN <<knownFlags.FlagPlaintextNames>>
        ELSE <<knownFlags.FlagDirIV, knownFlags.FlagEMENames,
               knownFlags.FlagLongNames, knownFlags.FlagRaw64>>)
    \o (IF aessiv \/ Len(fido2CredentialID) > 0
        THEN <<knownFlags.FlagAESSIV>> ELSE <<>>)
    \o (IF Len(fido2CredentialID) > 0 THEN <<knownFlags.FlagFIDO2>> ELSE <<>>)

\* the flags Create sets, in the order it appends them
CreateFlags(plaintextNames, aessiv, fido2CredentialID) ==
    <<knownFlags.FlagGCMIV128, knownFlags.FlagHKDF>>
    \o (IF plaintextNames
        THEN <<knownFlags.FlagPlaintextNames>>
        ELSE <<knownFlags.FlagDirIV, knownFlags.FlagEMENames,
               knownFlags.FlagLongNames, knownFlags.FlagRaw64>>)
    \o (IF aessiv THEN <<knownFlags.FlagAESSIV>> ELSE <<>>)
    \o (IF Len(fido2CredentialID) > 0 THEN <<knownFlags.FlagFIDO2>> ELSE <<>>)

\* the ConfFile before Create has wrapped a key into it
BlankCf(filename, plaintextNames, creator, aessiv, fido2CredentialID, fido2HmacSalt) ==
    [Creator |-> creator,
     EncryptedKey |-> <<>>,
     ScryptObject |-> <<>>,
     Version |-> CurrentVersion,
     FeatureFlags |-> CreateFlags(plaintextNames, aessiv, fido2CredentialID),
     FIDO2 |-> IF Len(fido2CredentialID) > 0
               THEN [CredentialID |-> fido2CredentialID, HMACSalt |-> fido2HmacSalt]
               ELSE [CredentialID |-> <<>>, HMACSalt |-> <<>>],
     filename |-> filename]

\* a variant of Create that wipes the key before it wraps it
CreateCfWipeFirst(filename, password, plaintextNames, logN, creator, aessiv, fido2CredentialID, fido2HmacSalt, key, salt) ==
    EncryptKey(BlankCf(filename, plaintextNames, creator, aessiv,
                       fido2CredentialID, fido2HmacSalt),
               Zeroed(key), password, logN, salt)

\* Create up to its call of WriteFile: the ConfFile it has built.
\* key and salt are what the random number generator returns.
CreateCf(filename, password, plaintextNames, logN, creator, aessiv, fido2CredentialID, fido2HmacSalt, key, salt) ==
    LET c0 == BlankCf(filename, plaintextNames, creator, aessiv,
                      fido2CredentialID, fido2HmacSalt)
    IN  EncryptKey(c0, key, password, logN, salt)

\* the flags Load requires for the mode of c
RequiredFlags(c) ==
    IF IsFeatureFlagSet(c, "FlagPlaintextNames")
    THEN requiredFlagsPlaintextNames
    ELSE requiredFlagsNormal

\* what Load returns when a required flag is missing
\* (a variant that forgets the check is DeprecatedResultAccept)
DeprecatedResultAccept(c) == [cf |-> c, err |-> ErrNil]
DeprecatedResult(c) ==
    [cf |-> NilCf, err |-> NewErr("Deprecated filesystem", DeprecatedFS)]

\* what Load returns for a flag that is not known
\* (a variant that skips unknown flags is UnknownFlagResultSkip)
UnknownFlagResultSkip(c) ==
    IF \E i \in 1..Len(RequiredFlags(c)) : ~IsFeatureFlagSet(c, RequiredFlags(c)[i])
    THEN DeprecatedResult(c)
    ELSE [cf |-> c, err |-> ErrNil]
UnknownFlagResult(c) ==
    [cf |-> NilCf, err |-> ErrPlain("Unsupported feature flag")]

\* Load
Load(d, filename) ==
    LET js == d[filename] IN
    IF js.kind = "none"
    THEN [cf |-> NilCf, err |-> ErrPlain("no such file or directory")]
    ELSE IF js.kind = "empty"
    THEN [cf |-> NilCf, err |-> ErrPlain("Config file is empty")]
    ELSE IF js.kind # "json"
    THEN [cf |-> NilCf, err |-> ErrPlain("json: cannot unmarshal")]
    ELSE
    LET c == Unmarshal(js.obj, filename) IN
    IF c.Version # CurrentVersion
    THEN [cf |-> NilCf, err |-> ErrPlain("Unsupported on-disk format")]
    ELSE IF \E j \in 1..Len(c.FeatureFlags) : ~isFeatureFlagKnown(c.FeatureFlags[j])
    THEN UnknownFlagResult(c)
    ELSE IF \E i \in 1..Len(RequiredFlags(c)) :
                ~IsFeatureFlagSet(c, RequiredFlags(c)[i])
    THEN DeprecatedResult(c)
    ELSE [cf |-> c, err |-> ErrNil]

\* LoadAndDecrypt
LoadAndDecrypt(d, filename, password) ==
    LET l == Load(d, filename) IN
    IF l.err # ErrNil
    THEN [key |-> NilKey, cf |-> NilCf, err |-> l.err]
    ELSE IF Len(password) = 0
    THEN [key |-> NilKey, cf |-> l.cf, err |-> ErrNil]
    ELSE LET r == DecryptMasterKey(l.cf, password) IN
         IF r.err # ErrNil
         THEN [key |-> NilKey, cf |-> NilCf, err |-> r.err]
         ELSE [key |-> r.masterkey, cf |-> l.cf, err |-> ErrNil]

\* the buffers of Create when it calls WriteFile: those EncryptKey left, and
\* the generated key after the loop "for i := range key { key[i] = 0 }"
CreateMem(filename, password, plaintextNames, logN, creator, aessiv, fido2CredentialID, fido2HmacSalt, key, salt) ==
    LET c0 == BlankCf(filename, plaintextNames, creator, aessiv,
                      fido2CredentialID, fido2HmacSalt)
        m == EncryptKeyMem(c0, key, password, logN, salt)
    IN  [m EXCEPT !.fn = "Create", !.key = Zeroed(m.key)]

\* the buffers LoadAndDecrypt leaves: those of DecryptMasterKey if it got
\* that far
LoadAndDecryptMem(d, filename, password) ==
    LET l == Load(d, filename) IN
    IF l.err # ErrNil \/ Len(password) = 0 THEN NoMem
    ELSE DecryptMasterKeyMem(l.cf, password)

\* WriteFile's temporary file: cf.filename + ".tmp"
\* (a variant that writes in place is TmpInPlace)
TmpInPlace(filename) == filename
TmpOf(filename) == filename \o <<".tmp">>

Paths == {ConfDefaultName, ConfDefaultName \o <<".tmp">>}

-----------------------------------------------------------------------------
(* The config file's life: Create, password change, load, crash *)

Creator == "gocryptfs"
CredentialIDs == {<<>>, <<7>>}
HmacSaltOf(cred) == IF Len(cred) > 0 THEN Bytes(ScryptSaltLen, 9) ELSE <<>>

NoToggles == [plaintextNames |-> FALSE, aessiv |-> FALSE, fido2 |-> <<>>]
NoHist ==
    [exists |-> FALSE, pw |-> <<>>, key |-> <<>>, intact |-> FALSE,
     toggles |-> NoToggles, olds |-> {}, origin |-> "none"]
NoRet ==
    [op |-> "none", err |-> ErrNil, key |-> NilKey, cfOk |-> FALSE,
     pw |-> <<>>, cause |-> "none"]

WriteSteps == {"wf_opened", "wf_written", "wf_synced", "wf_closed"}

NoPend == [h |-> NoHist, prev |-> NoFile]

NoName == [op |-> "none"]
NoCli == [op |-> "none"]
DefaultNT == [raw64 |-> TRUE, longNames |-> TRUE, BadnamePatterns |-> <<>>]

Init ==
    /\ disk = [p \in Paths |-> NoFile]
    /\ cf = NilCf
    /\ pc = "idle"
    /\ ret = NoRet
    /\ hist = NoHist
    /\ pend = NoPend
    /\ mem = NoMem
    /\ nt = DefaultNT
    /\ nm = NoName
    /\ cli = NoCli

\* WriteFile returns err without renaming
WriteFileFails(op, cause) ==
    /\ pc' = "idle"
    /\ cf' = NilCf
    /\ pend' = NoPend
    /\ ret' = [NoRet EXCEPT !.op = op, !.err = ErrPlain(cause), !.cause = cause]

\* a variant of WriteFile's first step that opens the temporary file without
\* O_EXCL and so reuses one that is there
WriteFileOpenReuse(c, h) ==
    /\ disk' = [disk EXCEPT ![TmpOf(c.filename)] = EmptyFile]
    /\ cf' = c
    /\ pend' = [h |-> h, prev |-> disk[c.filename]]
    /\ pc' = "wf_opened"
    /\ ret' = NoRet

\* WriteFile's first step, os.OpenFile(tmp, O_WRONLY|O_CREATE|O_EXCL, 0400), for
\* the ConfFile c; h is what c holds
WriteFileOpen(c, h) ==
    LET tmp == TmpOf(c.filename) IN
    IF disk[tmp] # NoFile
    THEN /\ WriteFileFails(h.origin, "open")
         /\ UNCHANGED disk
    ELSE /\ disk' = [disk EXCEPT ![tmp] = EmptyFile]
         /\ cf' = c
         /\ pend' = [h |-> h, prev |-> disk[c.filename]]
         /\ pc' = "wf_opened"
         /\ ret' = NoRet

\* Create(filename, password, ...) with its toggles and logN drawn from the
\* given sets, up to the point where WriteFile has opened the temporary file.
\* gocryptfs -init calls it for a directory that holds no config file yet.
CreateWith(ptns, sivs, creds, logNs) ==
    \E pw \in Passwords, ptn \in ptns, siv \in sivs, cred \in creds,
       logN \in logNs, devrandom \in BOOLEAN, k \in 1..NumKeys, s \in 1..NumSalts :
        LET key == Bytes(KeyLen, k)
            tg == [plaintextNames |-> ptn, aessiv |-> siv, fido2 |-> cred]
            c == CreateCf(ConfDefaultName, pw, ptn, logN, Creator, siv, cred,
                          HmacSaltOf(cred), key, Bytes(ScryptSaltLen, s))
        IN  /\ pc = "idle"
            /\ disk[ConfDefaultName] = NoFile
            /\ WriteFileOpen(c, [exists |-> TRUE, pw |-> pw, key |-> key,
                                 intact |-> TRUE, toggles |-> tg, olds |-> {},
                                 origin |-> "create"])
            /\ mem' = CreateMem(ConfDefaultName, pw, ptn, logN, Creator, siv, cred,
                                HmacSaltOf(cred), key, Bytes(ScryptSaltLen, s))
            /\ UNCHANGED <<hist, nameVars, cliVars>>

\* Create with the default toggles (encrypted names, GCM, no FIDO2)
CreateStart == CreateWith({FALSE}, {FALSE}, {<<>>}, {10})

\* Create with every combination of toggles
CreateAnyStart == CreateWith(BOOLEAN, BOOLEAN, CredentialIDs, LogNs)

\* password change: LoadAndDecrypt with the old password, EncryptKey with the
\* new one, then WriteFile up to the opening of the temporary file
ChangePasswordStart ==
    \E old \in Passwords, new \in Passwords, logN \in LogNs, s \in 1..NumSalts :
        LET r == LoadAndDecrypt(disk, ConfDefaultName, old) IN
        /\ pc = "idle"
        /\ hist.exists
        /\ IF r.err # ErrNil
           THEN /\ ret' = [NoRet EXCEPT !.op = "passwd", !.err = r.err, !.pw = old]
                /\ UNCHANGED <<disk, cf, pc, pend>>
           ELSE WriteFileOpen(
                    EncryptKey(r.cf, r.key, new, logN, Bytes(ScryptSaltLen, s)),
                    [hist EXCEPT !.pw = new,
                                 !.olds = hist.olds \cup {hist.pw},
                                 !.origin = "passwd"])
        /\ mem' = IF r.err # ErrNil
                  THEN LoadAndDecryptMem(disk, ConfDefaultName, old)
                  ELSE EncryptKeyMem(r.cf, r.key, new, logN, Bytes(ScryptSaltLen, s))
        /\ UNCHANGED <<hist, nameVars, cliVars>>

\* json.MarshalIndent, append newline, fd.Write(js)
WriteFileWrite ==
    LET tmp == TmpOf(cf.filename) IN
    /\ pc = "wf_opened"
    /\ \/ /\ disk' = [disk EXCEPT ![tmp] = JsonFile(Marshal(cf))]
          /\ pc' = "wf_written"
          /\ UNCHANGED <<cf, ret, pend>>
       \/ \E left \in {EmptyFile, PartialFile} :
             /\ disk' = [disk EXCEPT ![tmp] = left]
             /\ WriteFileFails(pend.h.origin, "write")
    /\ UNCHANGED <<hist, mem, nameVars, cliVars>>

\* fd.Sync(); on failure warn and syscall.Sync(), then go on
WriteFileSync ==
    /\ pc = "wf_written"
    /\ pc' = "wf_synced"
    /\ UNCHANGED <<disk, cf, ret, hist, pend, mem, nameVars, cliVars>>

\* fd.Close()
WriteFileClose ==
    /\ pc = "wf_synced"
    /\ \/ /\ pc' = "wf_closed"
          /\ UNCHANGED <<cf, ret, pend>>
       \/ WriteFileFails(pend.h.origin, "close")
    /\ UNCHANGED <<disk, hist, mem, nameVars, cliVars>>

\* os.Rename(tmp, cf.filename)
WriteFileRename ==
    LET tmp == TmpOf(cf.filename) IN
    /\ pc = "wf_closed"
    /\ \/ /\ disk' = [[disk EXCEPT ![tmp] = NoFile] EXCEPT ![cf.filename] = disk[tmp]]
          /\ hist' = pend.h
          /\ pc' = "idle"
          /\ cf' = NilCf
          /\ pend' = NoPend
          /\ ret' = [NoRet EXCEPT !.op = pend.h.origin]
       \/ /\ WriteFileFails(pend.h.origin, "rename")
          /\ UNCHANGED <<disk, hist>>
    /\ UNCHANGED <<mem, nameVars, cliVars>>

\* the process dies inside WriteFile, before the rename has happened
Crash ==
    /\ pc \in WriteSteps
    /\ pc' = "idle"
    /\ cf' = NilCf
    /\ pend' = NoPend
    /\ ret' = [NoRet EXCEPT !.op = "crash", !.cause = pc]
    /\ mem' = NoMem
    /\ UNCHANGED <<disk, hist, nameVars, cliVars>>

\* somebody removes the left-over temporary file
RemoveTmp ==
    /\ pc = "idle"
    /\ disk[ConfDefaultName \o <<".tmp">>] # NoFile
    /\ disk' = [disk EXCEPT ![ConfDefaultName \o <<".tmp">>] = NoFile]
    /\ UNCHANGED <<cf, pc, ret, hist, pend, mem, nameVars, cliVars>>

\* LoadAndDecrypt(filename, password), the password may be empty
LoadOp ==
    \E pw \in Passwords \cup {EmptyPassword} :
        LET r == LoadAndDecrypt(disk, ConfDefaultName, pw) IN
        /\ pc = "idle"
        /\ ret' = [NoRet EXCEPT !.op = "load", !.err = r.err, !.key = r.key,
                                !.cfOk = (r.cf # NilCf), !.pw = pw]
        /\ mem' = LoadAndDecryptMem(disk, ConfDefaultName, pw)
        /\ UNCHANGED <<disk, cf, pc, hist, pend, nameVars, cliVars>>

\* the stored file is altered behind the program's back: the salt is changed,
\* the EncryptedKey is cut short, or a byte of its tag is flipped
TruncatedLens(ct) == {0, (ct.IVLen \div 8) - 1, FullLen(ct) - 1}

Altered(obj, how, n) ==
    CASE how = "salt" ->
            [obj EXCEPT !.ScryptObject.Salt[1] = (@ + 1) % 256]
      [] how = "truncate" ->
            [obj EXCEPT !.EncryptedKey.len = n]
      [] how = "tag" ->
            [obj EXCEPT !.EncryptedKey.tagOk = FALSE]

Tamper ==
    \E how \in {"salt", "truncate", "tag"} :
        /\ pc = "idle"
        /\ hist.exists /\ hist.intact
        /\ disk[ConfDefaultName].kind = "json"
        /\ \E n \in TruncatedLens(disk[ConfDefaultName].obj.EncryptedKey) :
              disk' = [disk EXCEPT ![ConfDefaultName] =
                          JsonFile(Altered(disk[ConfDefaultName].obj, how, n))]
        /\ hist' = [hist EXCEPT !.intact = FALSE]
        /\ ret' = [NoRet EXCEPT !.op = "tamper", !.cause = how]
        /\ mem' = NoMem
        /\ UNCHANGED <<cf, pc, pend, nameVars, cliVars>>

Next ==
    \/ CreateStart
    \/ ChangePasswordStart
    \/ WriteFileWrite
    \/ WriteFileSync
    \/ WriteFileClose
    \/ WriteFileRename
    \/ Crash
    \/ RemoveTmp
    \/ LoadOp
    \/ Tamper

Spec == Init /\ [][Next]_vars

\* Create with every combination of toggles, then loads
NextCreate ==
    \/ CreateAnyStart
    \/ WriteFileWrite
    \/ WriteFileSync
    \/ WriteFileClose
    \/ WriteFileRename
    \/ RemoveTmp
    \/ LoadOp

SpecCreate == Init /\ [][NextCreate]_vars

-----------------------------------------------------------------------------
(* Loading config files that other versions or other hands wrote *)

UnknownToken == "Bogus"
AllTokens ==
    <<"GCMIV128", "HKDF", "PlaintextNames", "DirIV", "EMENames", "LongNames",
      "Raw64", "AESSIV", "FIDO2", "LongNameMax", UnknownToken>>
AllTokenSet == {AllTokens[i] : i \in 1..Len(AllTokens)}
Versions == {CurrentVersion - 1, CurrentVersion}

IsIn(S, t) == t \in S
\* the flags of the set S as the list a config file holds
FlagList(S) ==
    LET RECURSIVE pick(_)
        pick(i) == IF i > Len(AllTokens) THEN <<>>
                   ELSE (IF IsIn(S, AllTokens[i]) THEN <<AllTokens[i]>> ELSE <<>>)
                        \o pick(i + 1)
    IN  pick(1)

FlagSet(obj) == {obj.FeatureFlags[j] : j \in 1..Len(obj.FeatureFlags)}

\* a config file with the given Version and flags, its key wrapped as
\* EncryptKey wraps it for these flags
ForeignConfig(version, S, pw, key, salt) ==
    LET c0 == [Creator |-> "other", EncryptedKey |-> <<>>, ScryptObject |-> <<>>,
               Version |-> version, FeatureFlags |-> FlagList(S),
               FIDO2 |-> [CredentialID |-> <<>>, HMACSalt |-> <<>>],
               filename |-> ConfDefaultName]
    IN  Marshal(EncryptKey(c0, key, pw, 10, salt))

\* a config file appears at the config's name
PutConfig ==
    \E version \in Versions, S \in SUBSET AllTokenSet :
        LET pw == Bytes(1, 1)
            key == Bytes(KeyLen, 1)
        IN  /\ pc = "idle"
            /\ disk[ConfDefaultName] = NoFile
            /\ disk' = [disk EXCEPT ![ConfDefaultName] =
                            JsonFile(ForeignConfig(version, S, pw, key,
                                                   Bytes(ScryptSaltLen, 1)))]
            /\ hist' = [NoHist EXCEPT !.exists = TRUE, !.pw = pw, !.key = key,
                                      !.intact = TRUE, !.origin = "foreign"]
            /\ ret' = NoRet
            /\ UNCHANGED <<cf, pc, pend, mem, nameVars, cliVars>>

\* a file that is no config appears at the config's name
PutBrokenFile ==
    \E f \in {EmptyFile, PartialFile, GarbageFile} :
        /\ pc = "idle"
        /\ disk[ConfDefaultName] = NoFile
        /\ disk' = [disk EXCEPT ![ConfDefaultName] = f]
        /\ hist' = NoHist
        /\ ret' = NoRet
        /\ UNCHANGED <<cf, pc, pend, mem, nameVars, cliVars>>

NextLoad ==
    \/ PutConfig
    \/ PutBrokenFile
    \/ LoadOp

SpecLoad == Init /\ [][NextLoad]_vars

-----------------------------------------------------------------------------
(* File names: padding, the wide-block cipher, base64 *)

\* names of at most MaxNameLen bytes are enumerated in full
MaxNameLen == 2

\* aes.BlockSize
BlockSize == 16
\* base64 characters are their index 0..63 in the URL-safe alphabet; '=' is 64
PadChar == 64

EBADMSG == [kind |-> "errno", msg |-> "EBADMSG"]
ErrDetail(m, pos) == [kind |-> "error", msg |-> m, pos |-> pos]

\* pad16: PKCS#7 padding to a multiple of 16, a full block for aligned input
pad16(orig) ==
    LET padLen == BlockSize - (Len(orig) % BlockSize)
    IN  orig \o [i \in 1..padLen |-> padLen]

\* unPad16: the inverse, with errors that tell what is wrong and where
unPad16(padded) ==
    LET oldLen == Len(padded)
        padLen == padded[oldLen]
        bad == {i \in (oldLen - padLen + 1)..oldLen : padded[i] # padLen}
    IN  IF oldLen = 0
        THEN [bin |-> <<>>, err |-> ErrDetail("Empty input", 0)]
        ELSE IF oldLen % BlockSize # 0
        THEN [bin |-> <<>>, err |-> ErrDetail("Unaligned size", oldLen)]
        ELSE IF padLen = 0
        THEN [bin |-> <<>>, err |-> ErrDetail("Padding cannot be zero-length", oldLen)]
        ELSE IF padLen > BlockSize
        THEN [bin |-> <<>>, err |-> ErrDetail("Padding too long", padLen)]
        ELSE IF padLen >= oldLen
        THEN [bin |-> <<>>, err |-> ErrDetail("Padding too long", padLen)]
        ELSE IF bad # {}
        THEN [bin |-> <<>>,
              err |-> ErrDetail("Padding byte is invalid",
                                CHOOSE i \in bad : \A j \in bad : i <= j)]
        ELSE [bin |-> SubSeq(padded, 1, oldLen - padLen), err |-> ErrNil]

\* the tweak the cipher derives from the IV
Tweak(iv) ==
    LET RECURSIVE sum(_)
        sum(i) == IF i > Len(iv) THEN 0 ELSE iv[i] * i + sum(i + 1)
    IN  sum(1) % 256

\* EMECipher.Encrypt / Decrypt: a length-preserving permutation of the input,
\* chosen by the tweak (the key is fixed); the two are inverses
EMEEncrypt(iv, bin) ==
    LET n == Len(bin)
    IN  [i \in 1..n |-> (bin[n + 1 - i] + Tweak(iv) + i) % 256]

EMEDecrypt(iv, bin) ==
    LET n == Len(bin)
    IN  [j \in 1..n |-> (bin[n + 1 - j] + 512 - Tweak(iv) - (n + 1 - j)) % 256]

\* base64.Encoding.EncodeToString, padded (URLEncoding) or not (RawURLEncoding)
RECURSIVE B64Encode(_, _)
B64Encode(raw64, src) ==
    IF Len(src) = 0 THEN <<>>
    ELSE IF Len(src) = 1
    THEN <<src[1] \div 4, (src[1] % 4) * 16>>
         \o (IF raw64 THEN <<>> ELSE <<PadChar, PadChar>>)
    ELSE IF Len(src) = 2
    THEN <<src[1] \div 4, (src[1] % 4) * 16 + src[2] \div 16, (src[2] % 16) * 4>>
         \o (IF raw64 THEN <<>> ELSE <<PadChar>>)
    ELSE <<src[1] \div 4, (src[1] % 4) * 16 + src[2] \div 16,
           (src[2] % 16) * 4 + src[3] \div 64, src[3] % 64>>
         \o B64Encode(raw64, SubSeq(src, 4, Len(src)))

\* base64.Encoding.EncodedLen
EncodedLen(raw64, n) ==
    IF raw64 THEN (n * 8 + 5) \div 6 ELSE ((n + 2) \div 3) * 4

ErrB64(pos) == ErrDetail("illegal base64 data", pos)

\* the last quantum of base64 input: fewer than four data characters
B64DecodeTail(raw64, q, pos) ==
    LET d == Cardinality({i \in 1..Len(q) : \A j \in 1..i : q[j] < PadChar})
        b1 == q[1] * 4 + q[2] \div 16
        b2 == (q[2] % 16) * 16 + q[3] \div 4
        tailOk == IF raw64
                  THEN Len(q) = d /\ d \in {2, 3}
                  ELSE /\ Len(q) = 4 /\ d \in {2, 3}
                       /\ \A i \in (d + 1)..4 : q[i] = PadChar
    IN  IF ~tailOk THEN [bin |-> <<>>, err |-> ErrB64(pos + d)]
        ELSE IF d = 2 THEN [bin |-> <<b1>>, err |-> ErrNil]
        ELSE [bin |-> <<b1, b2>>, err |-> ErrNil]

\* base64.Encoding.DecodeString
RECURSIVE B64DecodeFrom(_, _, _)
B64DecodeFrom(raw64, s, pos) ==
    IF Len(s) = 0 THEN [bin |-> <<>>, err |-> ErrNil]
    ELSE IF Len(s) >= 4 /\ \A i \in 1..4 : s[i] < PadChar
    THEN LET rest == B64DecodeFrom(raw64, SubSeq(s, 5, Len(s)), pos + 4)
         IN  IF rest.err # ErrNil THEN rest
             ELSE [bin |-> <<s[1] * 4 + s[2] \div 16,
                             (s[2] % 16) * 16 + s[3] \div 4,
                             (s[3] % 4) * 64 + s[4]>> \o rest.bin,
                   err |-> ErrNil]
    ELSE IF Len(s) > 4 THEN [bin |-> <<>>, err |-> ErrB64(pos)]
    ELSE B64DecodeTail(raw64, s, pos)

B64Decode(raw64, s) == B64DecodeFrom(raw64, s, 0)

Contains(bin, b) == \E i \in 1..Len(bin) : bin[i] = b

\* New(e, longNames, raw64)
New(longNames, raw64) ==
    [raw64 |-> raw64, longNames |-> longNames, BadnamePatterns |-> <<>>]

\* what decryptName returns when unPad16 fails
\* (a variant that hands unPad16's error through is UnpadErrDetailed)
UnpadErrDetailed(err) == err
UnpadErr(err) == EBADMSG

\* NameTransform.decryptName
decryptName(n, cipherName, iv) ==
    LET dec == B64Decode(n.raw64, cipherName) IN
    IF dec.err # ErrNil THEN [name |-> <<>>, err |-> dec.err]
    ELSE IF Len(dec.bin) = 0 THEN [name |-> <<>>, err |-> EBADMSG]
    ELSE IF Len(dec.bin) % BlockSize # 0 THEN [name |-> <<>>, err |-> EBADMSG]
    ELSE
    LET un == unPad16(EMEDecrypt(iv, dec.bin)) IN
    IF un.err # ErrNil THEN [name |-> <<>>, err |-> UnpadErr(un.err)]
    ELSE IF Contains(un.bin, 0) \/ Contains(un.bin, 47)
    THEN [name |-> <<>>, err |-> EBADMSG]
    ELSE IF un.bin = <<46>> \/ un.bin = <<46, 46>>
    THEN [name |-> <<>>, err |-> EBADMSG]
    ELSE [name |-> un.bin, err |-> ErrNil]

\* a variant of EncryptName that adds no padding to input that is aligned
EncryptNameNoPadAligned(n, plainName, iv) ==
    B64Encode(n.raw64,
              EMEEncrypt(iv, IF Len(plainName) % BlockSize = 0
                             THEN plainName ELSE pad16(plainName)))

\* NameTransform.EncryptName
EncryptName(n, plainName, iv) ==
    B64Encode(n.raw64, EMEEncrypt(iv, pad16(plainName)))

-----------------------------------------------------------------------------
(* Name operations *)

\* bytes names are made of: NUL, a byte that is also a padding value, '.', '/', 'a'
NameBytes == {0, 1, 46, 47, 97}
ShortNames == UNION {[1..k -> NameBytes] : k \in 1..MaxNameLen}
LongNames == {Bytes(k, 97) : k \in {15, 16, 17, 32}}
           \cup {Bytes(15, 97) \o <<1>>, Bytes(15, 46) \o <<46>>}

\* a name the kernel can hand in
IsValidName(b) ==
    /\ Len(b) > 0
    /\ ~Contains(b, 0) /\ ~Contains(b, 47)
    /\ b # <<46>> /\ b # <<46, 46>>

ValidNames == {b \in ShortNames \cup LongNames : IsValidName(b)}

IVs == {Bytes(BlockSize, 0), Bytes(BlockSize, 255), [i \in 1..BlockSize |-> i]}

\* what a stored name may decrypt to after the disk was corrupted: a padded
\* name with one byte replaced, at any position
CorruptBases == {<<97>>, <<46, 97, 46>>, Bytes(15, 97), Bytes(16, 97)}
CorruptValues == {0, 1, 16, 17, 46, 47, 255}
CorruptPlains ==
    UNION {{[pad16(b) EXCEPT ![i] = v] : i \in 1..Len(pad16(b)), v \in CorruptValues} :
              b \in CorruptBases}
    \cup {pad16(b) : b \in ShortNames}

\* the kind of corruption a decrypted block shows
Classify(bin) ==
    LET un == unPad16(bin) IN
    IF un.err # ErrNil THEN "padding"
    ELSE IF Contains(un.bin, 0) THEN "nul"
    ELSE IF Contains(un.bin, 47) THEN "slash"
    ELSE IF un.bin = <<46>> \/ un.bin = <<46, 46>> THEN "dot"
    ELSE "valid"

InitNames ==
    /\ disk = [p \in Paths |-> NoFile]
    /\ cf = NilCf
    /\ pc = "idle"
    /\ ret = NoRet
    /\ hist = NoHist
    /\ pend = NoPend
    /\ mem = NoMem
    /\ nt \in {New(TRUE, raw64) : raw64 \in BOOLEAN}
    /\ nm = NoName
    /\ cli = NoCli

\* EncryptName(plainName, iv)
EncryptNameOp ==
    \E plainName \in ValidNames, iv \in IVs :
        /\ nm.op = "none"
        /\ nm' = [op |-> "encrypt", plain |-> plainName, iv |-> iv,
                  cipher |-> EncryptName(nt, plainName, iv),
                  name |-> <<>>, err |-> ErrNil, class |-> "valid",
                  from |-> "encrypt"]
        /\ UNCHANGED <<cfgVars, nt, cliVars>>

\* a corrupted entry is found in a directory
CorruptNameOp ==
    \E bin \in CorruptPlains, iv \in IVs :
        /\ nm.op = "none"
        /\ nm' = [op |-> "corrupt", plain |-> bin, iv |-> iv,
                  cipher |-> B64Encode(nt.raw64, EMEEncrypt(iv, bin)),
                  name |-> <<>>, err |-> ErrNil, class |-> Classify(bin),
                  from |-> "corrupt"]
        /\ UNCHANGED <<cfgVars, nt, cliVars>>

\* decryptName(cipherName, iv) of the name at hand
DecryptNameOp ==
    /\ nm.op \in {"encrypt", "corrupt"}
    /\ LET r == decryptName(nt, nm.cipher, nm.iv)
       IN  nm' = [nm EXCEPT !.op = "decrypt", !.name = r.name, !.err = r.err]
    /\ UNCHANGED <<cfgVars, nt, cliVars>>

NextNames ==
    \/ EncryptNameOp
    \/ CorruptNameOp
    \/ DecryptNameOp

SpecNames == InitNames /\ [][NextNames]_vars

-----------------------------------------------------------------------------
(* Names that do not decrypt: DecryptName and the badname patterns *)

\* junk appended to a stored name is at most MaxJunkLen characters long
MaxJunkLen == 2

\* a character outside the base64 alphabet: '.'
DotChar == 65

\* the byte of a character of a cipher name (the URL-safe base64 alphabet,
\* '=' and '.')
CharByte(ch) ==
    IF ch < 26 THEN 65 + ch
    ELSE IF ch < 52 THEN 97 + (ch - 26)
    ELSE IF ch < 62 THEN 48 + (ch - 52)
    ELSE IF ch = 62 THEN 45
    ELSE IF ch = 63 THEN 95
    ELSE IF ch = PadChar THEN 61
    ELSE 46

\* string(cipherName) as bytes
StrBytes(s) == [i \in 1..Len(s) |-> CharByte(s[i])]

\* " GOCRYPTFS_BAD_NAME"
BadNameSuffix ==
    <<32, 71, 79, 67, 82, 89, 80, 84, 70, 83, 95, 66, 65, 68, 95, 78, 65, 77, 69>>

\* glob patterns are sequences of tokens: a literal character, '*', '?', and
\* a '[' that is never closed
Lit(ch) == [t |-> "lit", c |-> ch]
Star == [t |-> "star", c |-> 0]
QMark == [t |-> "any", c |-> 0]
OpenClass == [t |-> "class", c |-> 0]

ErrBadPattern == ErrPlain("syntax error in pattern")

RECURSIVE Glob(_, _)
Glob(p, s) ==
    IF Len(p) = 0 THEN Len(s) = 0
    ELSE IF p[1].t = "star"
    THEN \E k \in 0..Len(s) : Glob(Tail(p), SubSeq(s, k + 1, Len(s)))
    ELSE IF p[1].t = "any"
    THEN Len(s) > 0 /\ Glob(Tail(p), Tail(s))
    ELSE Len(s) > 0 /\ s[1] = p[1].c /\ Glob(Tail(p), Tail(s))

\* filepath.Match(pattern, name)
Match(pattern, name) ==
    IF \E i \in 1..Len(pattern) : pattern[i].t = "class"
    THEN [match |-> FALSE, err |-> ErrBadPattern]
    ELSE [match |-> Glob(pattern, name), err |-> ErrNil]

\* the test DecryptName makes on the outcome of filepath.Match
\* (a variant that takes every pattern as matching is PatternAppliesAlways)
PatternAppliesAlways(m) == TRUE
PatternApplies(m) == m.err = ErrNil /\ m.match

\* the shortest prefix DecryptName tries: one cipher block in base64
\* (a variant that stops one character earlier is NameMinExclusive)
NameMinExclusive(n) == EncodedLen(n.raw64, BlockSize) + 1
NameMin(n) == EncodedLen(n.raw64, BlockSize)

\* DecryptName: the loop over charpos, from the longest prefix down
RECURSIVE LongestDecryptable(_, _, _, _)
LongestDecryptable(n, cipherName, iv, charpos) ==
    IF charpos < NameMin(n)
    THEN [name |-> StrBytes(cipherName) \o BadNameSuffix, err |-> ErrNil]
    ELSE LET r == decryptName(n, SubSeq(cipherName, 1, charpos), iv)
         IN  IF r.err = ErrNil
             THEN [name |-> r.name
                            \o StrBytes(SubSeq(cipherName, charpos + 1, Len(cipherName)))
                            \o BadNameSuffix,
                   err |-> ErrNil]
             ELSE LongestDecryptable(n, cipherName, iv, charpos - 1)

\* DecryptName: the loop over BadnamePatterns, entered when decryptName failed
RECURSIVE BadnameLoop(_, _, _, _, _)
BadnameLoop(n, cipherName, iv, i, res) ==
    IF i > Len(n.BadnamePatterns) THEN res
    ELSE IF PatternApplies(Match(n.BadnamePatterns[i], cipherName))
    THEN LongestDecryptable(n, cipherName, iv, Len(cipherName) - 1)
    ELSE BadnameLoop(n, cipherName, iv, i + 1, res)

\* NameTransform.DecryptName
DecryptName(n, cipherName, iv) ==
    LET res == decryptName(n, cipherName, iv)
    IN  IF res.err # ErrNil
        THEN BadnameLoop(n, cipherName, iv, 1, res)
        ELSE res

\* the values of BadnamePatterns: none (as New leaves it), "*.", "*",
\* "[" before "*.", "?*.?"
PatternLists ==
    { <<>>,
      << <<Star, Lit(DotChar)>> >>,
      << <<Star>> >>,
      << <<OpenClass>>, <<Star, Lit(DotChar), Star>> >>,
      << <<QMark, Star, Lit(DotChar), QMark>> >> }

\* what a sync tool or a crash appends to a stored name
JunkChars == {2, DotChar, PadChar}
Junks == UNION {[1..k -> JunkChars] : k \in 1..MaxJunkLen}

\* the plaintext names stored: one block, and two blocks
StoredNames == {<<97>>, Bytes(15, 97), Bytes(16, 97), Bytes(17, 97)}
\* how many trailing characters a stored name lost
Cuts == {0, 1, 2, 3, 22}

InitBadname ==
    /\ disk = [p \in Paths |-> NoFile]
    /\ cf = NilCf
    /\ pc = "idle"
    /\ ret = NoRet
    /\ hist = NoHist
    /\ pend = NoPend
    /\ mem = NoMem
    /\ nt \in {[New(TRUE, raw64) EXCEPT !.BadnamePatterns = ps] :
                  raw64 \in BOOLEAN, ps \in PatternLists}
    /\ nm = NoName
    /\ cli = NoCli

\* a directory entry is read whose name was stored intact
ReadEntryOp ==
    \E plainName \in StoredNames, iv \in IVs :
        /\ nm.op = "none"
        /\ nm' = [op |-> "entry", plain |-> plainName, iv |-> iv,
                  cipher |-> EncryptName(nt, plainName, iv),
                  name |-> <<>>, err |-> ErrNil, class |-> "valid",
                  from |-> "intact"]
        /\ UNCHANGED <<cfgVars, nt, cliVars>>

\* a directory entry is read whose name was cut short and got junk appended
ReadDamagedEntryOp ==
    \E plainName \in StoredNames, iv \in IVs, cut \in Cuts, junk \in Junks \cup {<<>>} :
        /\ nm.op = "none"
        /\ cut > 0 \/ Len(junk) > 0
        /\ LET whole == EncryptName(nt, plainName, iv)
           IN  /\ cut < Len(whole)
               /\ nm' = [op |-> "entry", plain |-> plainName, iv |-> iv,
                         cipher |-> SubSeq(whole, 1, Len(whole) - cut) \o junk,
                         name |-> <<>>, err |-> ErrNil, class |-> "damaged",
                         from |-> "damaged"]
        /\ UNCHANGED <<cfgVars, nt, cliVars>>

\* DecryptName(cipherName, iv) of the entry at hand
DecryptEntryOp ==
    /\ nm.op = "entry"
    /\ LET r == DecryptName(nt, nm.cipher, nm.iv)
       IN  nm' = [nm EXCEPT !.op = "decryptname", !.name = r.name, !.err = r.err]
    /\ UNCHANGED <<cfgVars, nt, cliVars>>

NextBadname ==
    \/ ReadEntryOp
    \/ ReadDamagedEntryOp
    \/ DecryptEntryOp

SpecBadname == InitBadname /\ [][NextBadname]_vars

-----------------------------------------------------------------------------
(* The command line: prefixOArgs and parseCliOptsBase *)
(* Strings are sequences of one-character strings.                         *)

\* command lines have at most MaxOArgs arguments after the program name
\* where prefixOArgs is examined alone, and MaxCliArgs where they are parsed
MaxOArgs == 3
MaxCliArgs == 3

\* exitcodes.Usage
Usage == 6

ProgramName == <<"g", "o", "c", "r", "y", "p", "t", "f", "s">>

\* strings.Split(s, sep) for a one-character separator
RECURSIVE Split(_, _)
Split(s, sep) ==
    IF \A i \in 1..Len(s) : s[i] # sep THEN <<s>>
    ELSE LET k == CHOOSE i \in 1..Len(s) :
                      s[i] = sep /\ \A j \in 1..(i - 1) : s[j] # sep
         IN  <<SubSeq(s, 1, k - 1)>> \o Split(SubSeq(s, k + 1, Len(s)), sep)

\* strings.HasPrefix
HasPrefix(s, prefix) ==
    Len(s) >= Len(prefix) /\ SubSeq(s, 1, Len(prefix)) = prefix

\* what a function that may call os.Exit hands back
Returned(args) == [exited |-> FALSE, code |-> 0, args |-> args, err |-> ErrNil]
Failed(err) == [exited |-> FALSE, code |-> 0, args |-> <<>>, err |-> err]
Exited(code) == [exited |-> TRUE, code |-> code, args |-> <<>>, err |-> ErrNil]

\* prefixOArgs: the loop that finds and extracts "-o foo,bar"; osArgs[i] of
\* the code is osArgs[i + 1] here
RECURSIVE ExtractOArgs(_, _, _, _)
ExtractOArgs(osArgs, i, otherArgs, oOpts) ==
    IF i > Len(osArgs)
    THEN [otherArgs |-> otherArgs, oOpts |-> oOpts, err |-> ErrNil]
    ELSE IF osArgs[i] = <<"-", "o">>
    THEN IF i + 1 > Len(osArgs)
         THEN [otherArgs |-> otherArgs, oOpts |-> oOpts,
               err |-> ErrPlain("The \"-o\" option requires an argument")]
         ELSE ExtractOArgs(osArgs, i + 2, otherArgs, Split(osArgs[i + 1], ","))
    ELSE IF HasPrefix(osArgs[i], <<"-", "o", "=">>)
    THEN ExtractOArgs(osArgs, i + 1, otherArgs,
                      Split(SubSeq(osArgs[i], 4, Len(osArgs[i])), ","))
    ELSE ExtractOArgs(osArgs, i + 1, Append(otherArgs, osArgs[i]), oOpts)

\* prefixOArgs: the loop that adds the options from "-o"
RECURSIVE AddOOpts(_, _, _)
AddOOpts(newArgs, oOpts, i) ==
    IF i > Len(oOpts) THEN Returned(newArgs)
    ELSE IF oOpts[i] = <<>> THEN AddOOpts(newArgs, oOpts, i + 1)
    ELSE IF oOpts[i] = <<"o">> \/ oOpts[i] = <<"-", "o">> THEN Exited(Usage)
    ELSE AddOOpts(Append(newArgs, <<"-">> \o oOpts[i]), oOpts, i + 1)

\* prefixOArgs
prefixOArgs(osArgs) ==
    IF Len(osArgs) < 3 THEN Returned(osArgs)
    ELSE IF \E i \in 2..Len(osArgs) : osArgs[i] = <<"-", "-">> THEN Returned(osArgs)
    ELSE
    LET ex == ExtractOArgs(osArgs, 2, <<>>, <<>>) IN
    IF ex.err # ErrNil THEN Failed(ex.err)
    ELSE
    LET added == AddOOpts(<<osArgs[1]>>, ex.oOpts, 1) IN
    IF added.exited THEN added
    ELSE Returned(added.args \o ex.otherArgs)

\* the options of the flag set that are modelled, by the kind of their value
BoolFlags == {<<"f", "o", "r", "c", "e", "d", "e", "c", "o", "d", "e">>, <<"a", "e", "s", "s", "i", "v">>, <<"r", "e", "v", "e", "r", "s", "e">>, <<"a", "l", "l", "o", "w", "_", "o", "t", "h", "e", "r">>, <<"r", "o">>}
StringFlags == {<<"o", "p", "e", "n", "s", "s", "l">>, <<"k", "o">>, <<"m", "a", "s", "t", "e", "r", "k", "e", "y">>, <<"f", "i", "d", "o", "2">>, <<"o">>}
MultiFlags == {<<"e", "x", "t", "p", "a", "s", "s">>, <<"p", "a", "s", "s", "f", "i", "l", "e">>}

\* strconv.ParseBool
TrueStrings == {<<"1">>, <<"t">>, <<"T">>, <<"T", "R", "U", "E">>, <<"t", "r", "u", "e">>, <<"T", "r", "u", "e">>}
FalseStrings == {<<"0">>, <<"f">>, <<"F">>, <<"F", "A", "L", "S", "E">>, <<"f", "a", "l", "s", "e">>, <<"F", "a", "l", "s", "e">>}

\* the values the flag set starts from
DefaultArgs ==
    [forcedecode |-> FALSE, aessiv |-> FALSE, reverse |-> FALSE,
     allow_other |-> FALSE, ro |-> FALSE, openssl |-> FALSE,
     opensslAuto |-> <<"a", "u", "t", "o">>, ko |-> <<>>, masterkey |-> <<>>, fido2 |-> <<>>,
     extpass |-> <<>>, passfile |-> <<>>]

\* flag.Value.Set of a boolean option
SetBool(a, name, v) ==
    IF name = <<"f", "o", "r", "c", "e", "d", "e", "c", "o", "d", "e">> THEN [a EXCEPT !.forcedecode = v]
    ELSE IF name = <<"a", "e", "s", "s", "i", "v">> THEN [a EXCEPT !.aessiv = v]
    ELSE IF name = <<"r", "e", "v", "e", "r", "s", "e">> THEN [a EXCEPT !.reverse = v]
    ELSE IF name = <<"a", "l", "l", "o", "w", "_", "o", "t", "h", "e", "r">> THEN [a EXCEPT !.allow_other = v]
    ELSE [a EXCEPT !.ro = v]

\* flag.Value.Set of a string or multipleStrings option
SetString(a, name, value) ==
    IF name = <<"o", "p", "e", "n", "s", "s", "l">> THEN [a EXCEPT !.opensslAuto = value]
    ELSE IF name = <<"k", "o">> THEN [a EXCEPT !.ko = value]
    ELSE IF name = <<"m", "a", "s", "t", "e", "r", "k", "e", "y">> THEN [a EXCEPT !.masterkey = value]
    ELSE IF name = <<"f", "i", "d", "o", "2">> THEN [a EXCEPT !.fido2 = value]
    ELSE IF name = <<"e", "x", "t", "p", "a", "s", "s">> THEN [a EXCEPT !.extpass = Append(@, value)]
    ELSE IF name = <<"p", "a", "s", "s", "f", "i", "l", "e">> THEN [a EXCEPT !.passfile = Append(@, value)]
    ELSE a

\* flagSet.Parse: one argument after the other until the first that is not
\* an option; the result is the values set, or the error of the first
\* option that is not accepted
RECURSIVE FlagParse(_, _, _)
FlagParse(arguments, i, a) ==
    IF i > Len(arguments) THEN [args |-> a, err |-> ErrNil]
    ELSE
    LET s == arguments[i] IN
    IF Len(s) < 2 \/ s[1] # "-" THEN [args |-> a, err |-> ErrNil]
    ELSE IF s = <<"-", "-">> THEN [args |-> a, err |-> ErrNil]
    ELSE
    LET numMinuses == IF s[2] = "-" THEN 2 ELSE 1
        rest == SubSeq(s, numMinuses + 1, Len(s))
    IN
    IF Len(rest) = 0 \/ rest[1] = "-" \/ rest[1] = "="
    THEN [args |-> a, err |-> ErrPlain("bad flag syntax")]
    ELSE
    LET eqs == {k \in 2..Len(rest) : rest[k] = "="}
        hasValue == eqs # {}
        eq == IF hasValue THEN CHOOSE k \in eqs : \A j \in eqs : k <= j ELSE Len(rest) + 1
        name == SubSeq(rest, 1, eq - 1)
        value == SubSeq(rest, eq + 1, Len(rest))
    IN
    IF name \in BoolFlags
    THEN IF ~hasValue THEN FlagParse(arguments, i + 1, SetBool(a, name, TRUE))
         ELSE IF value \in TrueStrings THEN FlagParse(arguments, i + 1, SetBool(a, name, TRUE))
         ELSE IF value \in FalseStrings THEN FlagParse(arguments, i + 1, SetBool(a, name, FALSE))
         ELSE [args |-> a, err |-> ErrPlain("invalid boolean value")]
    ELSE IF name \in StringFlags \cup MultiFlags
    THEN IF hasValue THEN FlagParse(arguments, i + 1, SetString(a, name, value))
         ELSE IF i + 1 <= Len(arguments)
         THEN FlagParse(arguments, i + 2, SetString(a, name, arguments[i + 1]))
         ELSE [args |-> a, err |-> ErrPlain("flag needs an argument")]
    ELSE [args |-> a, err |-> ErrPlain("flag provided but not defined")]

\* parseCliOptsBase: "-openssl" needs some post-processing
OpensslStep(a, build) ==
    IF a.opensslAuto = <<"a", "u", "t", "o">>
    THEN Returned([a EXCEPT !.openssl = build.PreferOpenSSL])
    ELSE IF a.opensslAuto \in TrueStrings THEN Returned([a EXCEPT !.openssl = TRUE])
    ELSE IF a.opensslAuto \in FalseStrings THEN Returned([a EXCEPT !.openssl = FALSE])
    ELSE Exited(Usage)

\* parseCliOptsBase: what "-forcedecode" sets
\* (a variant that leaves the mount options as they were passed is
\* ForcedecodePolicyKeep)
ForcedecodePolicyKeep(a) == [a EXCEPT !.openssl = TRUE]
ForcedecodePolicy(a) ==
    [a EXCEPT !.openssl = TRUE, !.ro = TRUE, !.allow_other = FALSE, !.ko = <<"n", "o", "e", "x", "e", "c">>]

\* parseCliOptsBase: "-forcedecode" only works with openssl
ForcedecodeStep(a, build) ==
    IF ~a.forcedecode THEN Returned(a)
    ELSE IF build.BuiltWithoutOpenssl THEN Exited(Usage)
    ELSE IF a.aessiv THEN Exited(Usage)
    ELSE IF a.reverse THEN Exited(Usage)
    ELSE IF ~a.openssl /\ a.opensslAuto # <<"a", "u", "t", "o">> THEN Exited(Usage)
    ELSE Returned(ForcedecodePolicy(a))

\* parseCliOptsBase: the options that cannot be used at the same time
ExclusiveStep(a) ==
    IF Len(a.extpass) # 0 /\ Len(a.passfile) # 0 THEN Exited(Usage)
    ELSE IF Len(a.passfile) # 0 /\ a.masterkey # <<>> THEN Exited(Usage)
    ELSE IF Len(a.extpass) # 0 /\ a.masterkey # <<>> THEN Exited(Usage)
    ELSE IF Len(a.extpass) # 0 /\ a.fido2 # <<>> THEN Exited(Usage)
    ELSE Returned(a)

\* parseCliOptsBase, with os.Args as its input; parsed is what flagSet.Parse
\* had set when it returned
parseCliOptsBase(osArgs, build) ==
    LET p == FlagParse(SubSeq(osArgs, 2, Len(osArgs)), 1, DefaultArgs) IN
    IF p.err # ErrNil THEN [res |-> Exited(Usage), parsed |-> p.args, parseOk |-> FALSE]
    ELSE
    LET o == OpensslStep(p.args, build) IN
    IF o.exited THEN [res |-> o, parsed |-> p.args, parseOk |-> TRUE]
    ELSE
    LET f == ForcedecodeStep(o.args, build) IN
    IF f.exited THEN [res |-> f, parsed |-> p.args, parseOk |-> TRUE]
    ELSE [res |-> ExclusiveStep(f.args), parsed |-> p.args, parseOk |-> TRUE]

\* parseCliOpts
parseCliOpts(osArgs, build) ==
    LET pre == prefixOArgs(osArgs) IN
    IF pre.err # ErrNil
    THEN [res |-> Exited(Usage), parsed |-> DefaultArgs, parseOk |-> FALSE]
    ELSE IF pre.exited
    THEN [res |-> pre, parsed |-> DefaultArgs, parseOk |-> FALSE]
    ELSE parseCliOptsBase(pre.args, build)

\* the builds: with openssl (preferred by the hardware or not), and without
Builds ==
    {[BuiltWithoutOpenssl |-> FALSE, PreferOpenSSL |-> TRUE],
     [BuiltWithoutOpenssl |-> FALSE, PreferOpenSSL |-> FALSE],
     [BuiltWithoutOpenssl |-> TRUE, PreferOpenSSL |-> FALSE]}

\* the arguments command lines are made of
OArguments ==
    {<<"-", "o">>, <<"-", "-">>, <<"-", "o", "=", "a", ",", "b">>, <<"c", ",", ",", "d">>, <<"-", "o", "=">>, <<"o">>, <<"m">>, <<"-", "q">>}
CliArguments ==
    {<<"-", "f", "o", "r", "c", "e", "d", "e", "c", "o", "d", "e">>, <<"-", "f", "o", "r", "c", "e", "d", "e", "c", "o", "d", "e", "=", "f", "a", "l", "s", "e">>, <<"-", "a", "e", "s", "s", "i", "v">>, <<"-", "r", "e", "v", "e", "r", "s", "e">>,
     <<"-", "o", "p", "e", "n", "s", "s", "l", "=", "f", "a", "l", "s", "e">>, <<"-", "o", "p", "e", "n", "s", "s", "l", "=", "a", "u", "t", "o">>, <<"-", "a", "l", "l", "o", "w", "_", "o", "t", "h", "e", "r">>, <<"-", "k", "o", "=", "s", "u", "i", "d">>,
     <<"-", "e", "x", "t", "p", "a", "s", "s", "=", "e">>, <<"-", "p", "a", "s", "s", "f", "i", "l", "e", "=", "p">>, <<"-", "m", "a", "s", "t", "e", "r", "k", "e", "y", "=", "m">>, <<"-", "f", "i", "d", "o", "2", "=", "d">>,
     <<"-", "o">>, <<"a", "l", "l", "o", "w", "_", "o", "t", "h", "e", "r", ",", "f", "o", "r", "c", "e", "d", "e", "c", "o", "d", "e">>, <<"-", "b", "o", "g", "u", "s">>}

ArgLists(arguments, maxArgs) ==
    UNION {{<<ProgramName>> \o l : l \in [1..k -> arguments]} : k \in 0..maxArgs}

InitCli ==
    /\ disk = [p \in Paths |-> NoFile]
    /\ cf = NilCf
    /\ pc = "idle"
    /\ ret = NoRet
    /\ hist = NoHist
    /\ pend = NoPend
    /\ mem = NoMem
    /\ nt = DefaultNT
    /\ nm = NoName
    /\ cli \in {[op |-> "none", build |-> b] : b \in Builds}

\* prefixOArgs(osArgs)
PrefixOArgsOp ==
    \E osArgs \in ArgLists(OArguments, MaxOArgs) :
        /\ cli.op = "none"
        /\ cli' = [op |-> "prefixOArgs", build |-> cli.build, osArgs |-> osArgs,
                   res |-> prefixOArgs(osArgs)]
        /\ UNCHANGED <<cfgVars, nameVars>>

\* parseCliOpts() with os.Args = osArgs
ParseCliOptsOp ==
    \E osArgs \in ArgLists(CliArguments, MaxCliArgs) :
        /\ cli.op = "none"
        /\ LET r == parseCliOpts(osArgs, cli.build)
           IN  cli' = [op |-> "parseCliOpts", build |-> cli.build, osArgs |-> osArgs,
                       res |-> r.res, parsed |-> r.parsed, parseOk |-> r.parseOk]
        /\ UNCHANGED <<cfgVars, nameVars>>

NextPrefixO == PrefixOArgsOp

SpecPrefixO == InitCli /\ [][NextPrefixO]_vars

NextCli == ParseCliOptsOp

SpecCli == InitCli /\ [][NextCli]_vars

-----------------------------------------------------------------------------
(* Properties of the config file *)

ErrPasswordIncorrect ==
    [kind |-> "exitcode", msg |-> "Password incorrect.", code |-> 12]
ErrDeprecatedFS ==
    [kind |-> "exitcode", msg |-> "Deprecated filesystem", code |-> 16]

ConfOnDisk == disk[ConfDefaultName]

\* C1: loading the config Create wrote, with the password Create was given,
\* returns without error the very master key Create generated, for every
\* password, logN and combination of toggles
C1_CreateLoadRoundTrip ==
    (hist.exists /\ hist.origin = "create" /\ hist.intact) =>
        /\ LoadAndDecrypt(disk, ConfDefaultName, hist.pw) =
               [key |-> hist.key, cf |-> Unmarshal(ConfOnDisk.obj, ConfDefaultName),
                err |-> ErrNil]
        /\ (ret.op = "load" /\ ret.pw = hist.pw) =>
               (ret.err = ErrNil /\ ret.key = hist.key /\ ret.cfOk)

C1_Witness ==
    /\ ret.op = "load" /\ hist.origin = "create" /\ ret.pw = hist.pw
    /\ ret.key = hist.key /\ Len(ret.key) = KeyLen
    /\ ~hist.toggles.plaintextNames /\ hist.toggles.aessiv
    /\ ConfOnDisk.obj.ScryptObject.N = 2 ^ 16

\* C2: whenever the unwrap of the master key fails (another password than
\* the one the key was wrapped with, an altered salt, a truncated
\* EncryptedKey, a tag mismatch) the load returns the one error
\* PasswordIncorrect, exit code 12, "Password incorrect.", and no key
C2_PasswordErrorsIndistinguishable ==
    (/\ ret.op \in {"load", "passwd"} /\ Len(ret.pw) > 0
     /\ Load(disk, ConfDefaultName).err = ErrNil
     /\ (ret.pw # hist.pw \/ ~hist.intact)) =>
        (ret.err = ErrPasswordIncorrect /\ ret.key = NilKey /\ ~ret.cfOk)

C2_Witness ==
    /\ ret.op = "load" /\ ret.pw = hist.pw /\ ~hist.intact
    /\ ConfOnDisk.kind = "json"
    /\ ConfOnDisk.obj.EncryptedKey.len = 0
    /\ ret.err = ErrPasswordIncorrect

\* C3: while WriteFile runs, and after a crash inside it, the file at the
\* config's name is the complete previous config, loads with the previous
\* password, and is at no time a partly written file
C3_AtomicRewrite ==
    /\ ConfOnDisk.kind \in {"none", "json"}
    /\ pc \in WriteSteps => ConfOnDisk = pend.prev
    /\ ((pc \in WriteSteps \/ ret.op = "crash") /\ hist.exists /\ hist.intact) =>
           LET r == LoadAndDecrypt(disk, ConfDefaultName, hist.pw)
           IN  r.err = ErrNil /\ r.key = hist.key

C3_Witness ==
    /\ ret.op = "crash" /\ ret.cause = "wf_closed"
    /\ hist.exists /\ hist.intact
    /\ disk[ConfDefaultName \o <<".tmp">>].kind = "json"
    /\ ConfOnDisk.kind = "json"
    /\ disk[ConfDefaultName \o <<".tmp">>].obj.EncryptedKey # ConfOnDisk.obj.EncryptedKey
    /\ LoadAndDecrypt(disk, ConfDefaultName, hist.pw).key = hist.key

\* C4: after successful password changes a load with the most recent
\* password returns the master key of the creation, and a load with any
\* other (so any earlier, different) password fails with PasswordIncorrect
C4_PasswordChange ==
    (/\ ret.op = "load" /\ Len(ret.pw) > 0
     /\ hist.exists /\ hist.intact /\ hist.origin = "passwd") =>
        IF ret.pw = hist.pw
        THEN ret.err = ErrNil /\ ret.key = hist.key /\ ret.cfOk
        ELSE ret.err = ErrPasswordIncorrect /\ ret.key = NilKey

C4_Witness ==
    /\ ret.op = "load" /\ hist.origin = "passwd" /\ hist.intact
    /\ ret.pw \in hist.olds /\ ret.pw # hist.pw
    /\ hist.pw \in hist.olds
    /\ ret.err = ErrPasswordIncorrect

HasUnknownFlag(obj) == \E t \in FlagSet(obj) :
    t \notin {"GCMIV128", "HKDF", "PlaintextNames", "DirIV", "EMENames",
              "LongNames", "Raw64", "AESSIV", "FIDO2", "LongNameMax"}

\* the flags the format requires for the mode of the config
SpecRequired(obj) ==
    IF "PlaintextNames" \in FlagSet(obj)
    THEN {"GCMIV128", "HKDF"}
    ELSE {"GCMIV128", "HKDF", "DirIV", "EMENames", "LongNames", "Raw64"}

\* C5: a config whose flags hold a token outside the known set is never
\* loaded: Load returns an error and no config, whatever other flags are
\* present or missing; with the current Version the error is the
\* unknown-flag error
C5_UnknownFlagRejected ==
    (ret.op = "load" /\ ConfOnDisk.kind = "json" /\ HasUnknownFlag(ConfOnDisk.obj)) =>
        /\ ret.err # ErrNil /\ ~ret.cfOk /\ ret.key = NilKey
        /\ ret.err.code # 16
        /\ ConfOnDisk.obj.Version = CurrentVersion =>
               (ret.err.kind = "error" /\ ret.err.msg = "Unsupported feature flag")

C5_Witness ==
    /\ ret.op = "load" /\ ConfOnDisk.kind = "json"
    /\ FlagSet(ConfOnDisk.obj) = {"Bogus", "DirIV"}
    /\ ConfOnDisk.obj.Version = CurrentVersion
    /\ ret.err.msg = "Unsupported feature flag"

\* C6: a parseable config of the current Version with only known flags that
\* misses a flag required for its mode fails to load with DeprecatedFS,
\* exit code 16, and no config is returned
C6_DeprecatedFS ==
    (/\ ret.op = "load" /\ ConfOnDisk.kind = "json"
     /\ ConfOnDisk.obj.Version = CurrentVersion
     /\ ~HasUnknownFlag(ConfOnDisk.obj)
     /\ ~(SpecRequired(ConfOnDisk.obj) \subseteq FlagSet(ConfOnDisk.obj))) =>
        (ret.err = ErrDeprecatedFS /\ ~ret.cfOk /\ ret.key = NilKey)

C6_Witness ==
    /\ ret.op = "load" /\ ConfOnDisk.kind = "json"
    /\ ConfOnDisk.obj.Version = CurrentVersion
    /\ FlagSet(ConfOnDisk.obj) = {"GCMIV128", "HKDF", "DirIV", "LongNames", "Raw64"}
    /\ ret.err = ErrDeprecatedFS

\* C7: every config Load accepts has exactly one of PlaintextNames and
\* EMENames set
C7_ExactlyOneNameMode ==
    (ret.op = "load" /\ ret.err = ErrNil /\ ret.cfOk) =>
        (("PlaintextNames" \in FlagSet(ConfOnDisk.obj))
            # ("EMENames" \in FlagSet(ConfOnDisk.obj)))

\* C8: the flags Create writes are GCMIV128 and HKDF, the flags of the name
\* mode chosen, AESSIV iff aessiv, FIDO2 iff a credential ID was given, and
\* Load accepts the config written
C8_CreateFlags ==
    (hist.exists /\ hist.origin = "create" /\ hist.intact) =>
        LET F == FlagSet(ConfOnDisk.obj)
            tg == hist.toggles
            named == {"DirIV", "EMENames", "LongNames", "Raw64"}
        IN  /\ ConfOnDisk.kind = "json"
            /\ {"GCMIV128", "HKDF"} \subseteq F
            /\ tg.plaintextNames => ("PlaintextNames" \in F /\ F \cap named = {})
            /\ ~tg.plaintextNames => ("PlaintextNames" \notin F /\ named \subseteq F)
            /\ ("AESSIV" \in F) = tg.aessiv
            /\ ("FIDO2" \in F) = (Len(tg.fido2) > 0)
            /\ Load(disk, ConfDefaultName).err = ErrNil
            /\ ret.op = "load" =>
                  /\ ret.err \in {ErrNil, ErrPasswordIncorrect}
                  /\ (ret.pw = hist.pw \/ Len(ret.pw) = 0) =>
                         (ret.err = ErrNil /\ ret.cfOk)

C8_Witness ==
    /\ ret.op = "load" /\ hist.origin = "create" /\ ret.cfOk
    /\ hist.toggles.plaintextNames /\ ~hist.toggles.aessiv
    /\ Len(hist.toggles.fido2) > 0
    /\ FlagSet(ConfOnDisk.obj) = {"GCMIV128", "HKDF", "PlaintextNames", "FIDO2"}

-----------------------------------------------------------------------------
(* Properties of the name transformation *)

\* C9: decrypting, with the same IV, the name EncryptName returned for a
\* valid plaintext name gives that name back without error, with the padded
\* and with the unpadded base64 encoding
C9_NameRoundTrip ==
    (nm.op = "decrypt" /\ nm.from = "encrypt") =>
        (nm.err = ErrNil /\ nm.name = nm.plain)

C9_Witness ==
    /\ nm.op = "decrypt" /\ nm.from = "encrypt" /\ ~nt.raw64
    /\ Len(nm.plain) = BlockSize
    /\ Len(nm.cipher) = 44
    /\ nm.name = nm.plain /\ nm.err = ErrNil

\* C10: whatever the corruption a decrypted name shows (bad padding at any
\* position, a NUL byte, a '/', the names "." and ".."), decryptName returns
\* the empty name and the one error EBADMSG
C10_SameCoarseError ==
    (nm.op = "decrypt" /\ nm.from = "corrupt" /\ nm.class # "valid") =>
        (nm.err = EBADMSG /\ nm.name = <<>>)

C10_Witness ==
    /\ nm.op = "decrypt" /\ nm.from = "corrupt" /\ nm.class = "padding"
    /\ unPad16(nm.plain).err.msg = "Padding byte is invalid"
    /\ unPad16(nm.plain).err.pos = 9
    /\ nm.err = EBADMSG /\ nm.name = <<>>

\* the prefix lengths DecryptName tries that decrypt
DecryptablePrefixes(n, cipherName, iv) ==
    {k \in EncodedLen(n.raw64, 16)..(Len(cipherName) - 1) :
        decryptName(n, SubSeq(cipherName, 1, k), iv).err = ErrNil}

SomePatternMatches(n, cipherName) ==
    \E i \in 1..Len(n.BadnamePatterns) :
        LET m == Match(n.BadnamePatterns[i], cipherName)
        IN  m.err = ErrNil /\ m.match

\* C11: when decryption of cipherName fails and a badname pattern matches
\* it, DecryptName returns no error and the name is, for the largest k from
\* EncodedLen(16) to len-1 whose prefix decrypts, decrypt(cipherName[:k])
\* followed by cipherName[k:] and " GOCRYPTFS_BAD_NAME"; when no such
\* prefix decrypts it is cipherName followed by " GOCRYPTFS_BAD_NAME"
C11_BadnameRecovery ==
    (/\ nm.op = "decryptname"
     /\ decryptName(nt, nm.cipher, nm.iv).err # ErrNil
     /\ SomePatternMatches(nt, nm.cipher)) =>
        LET K == DecryptablePrefixes(nt, nm.cipher, nm.iv)
        IN  /\ nm.err = ErrNil
            /\ K = {} => nm.name = StrBytes(nm.cipher) \o BadNameSuffix
            /\ K # {} =>
                  LET k == CHOOSE x \in K : \A y \in K : y <= x
                  IN  nm.name = decryptName(nt, SubSeq(nm.cipher, 1, k), nm.iv).name
                                \o StrBytes(SubSeq(nm.cipher, k + 1, Len(nm.cipher)))
                                \o BadNameSuffix

C11_Witness ==
    /\ nm.op = "decryptname" /\ nm.from = "damaged"
    /\ SomePatternMatches(nt, nm.cipher)
    /\ DecryptablePrefixes(nt, nm.cipher, nm.iv) = {EncodedLen(nt.raw64, 16)}
    /\ Len(nm.cipher) = EncodedLen(nt.raw64, 16) + 2
    /\ nm.name = nm.plain \o <<46, 67>> \o BadNameSuffix
    /\ nm.err = ErrNil

\* C12: DecryptName returns an error, and no name, exactly when decryption
\* of the whole cipherName fails and no badname pattern matches it; when
\* the whole cipherName decrypts, the result is the decrypted name as it
\* is, whatever the patterns are
C12_ErrorIffNoPattern ==
    nm.op = "decryptname" =>
        LET full == decryptName(nt, nm.cipher, nm.iv)
        IN  /\ (nm.err # ErrNil) =
                  (full.err # ErrNil /\ ~SomePatternMatches(nt, nm.cipher))
            /\ nm.err # ErrNil => nm.name = <<>>
            /\ full.err = ErrNil => (nm.name = full.name /\ nm.err = ErrNil)
            /\ nm.from = "intact" => (nm.name = nm.plain /\ nm.err = ErrNil)

C12_Witness ==
    /\ nm.op = "decryptname" /\ nm.from = "damaged"
    /\ Len(nt.BadnamePatterns) = 2
    /\ ~SomePatternMatches(nt, nm.cipher)
    /\ nm.err # ErrNil /\ nm.name = <<>>

-----------------------------------------------------------------------------
(* Properties of the command line *)

\* the comma-separated tokens of all the -o options of a command line, in
\* order, from argument i on
RECURSIVE AllOTokens(_, _)
AllOTokens(osArgs, i) ==
    IF i > Len(osArgs) THEN <<>>
    ELSE IF osArgs[i] = <<"-", "o">>
    THEN (IF i + 1 <= Len(osArgs) THEN Split(osArgs[i + 1], ",") ELSE <<>>)
         \o AllOTokens(osArgs, i + 2)
    ELSE IF HasPrefix(osArgs[i], <<"-", "o", "=">>)
    THEN Split(SubSeq(osArgs[i], 4, Len(osArgs[i])), ",") \o AllOTokens(osArgs, i + 1)
    ELSE AllOTokens(osArgs, i + 1)

\* the arguments that are neither a -o option nor the value of one
RECURSIVE NonOArgs(_, _)
NonOArgs(osArgs, i) ==
    IF i > Len(osArgs) THEN <<>>
    ELSE IF osArgs[i] = <<"-", "o">> THEN NonOArgs(osArgs, i + 2)
    ELSE IF HasPrefix(osArgs[i], <<"-", "o", "=">>) THEN NonOArgs(osArgs, i + 1)
    ELSE <<osArgs[i]>> \o NonOArgs(osArgs, i + 1)

RECURSIVE DashedNonEmpty(_)
DashedNonEmpty(tokens) ==
    IF Len(tokens) = 0 THEN <<>>
    ELSE IF Head(tokens) = <<>> THEN DashedNonEmpty(Tail(tokens))
    ELSE <<(<<"-">> \o Head(tokens))>> \o DashedNonEmpty(Tail(tokens))

\* every -o has its value
RECURSIVE OValuesComplete(_, _)
OValuesComplete(osArgs, i) ==
    IF i > Len(osArgs) THEN TRUE
    ELSE IF osArgs[i] = <<"-", "o">>
    THEN i + 1 <= Len(osArgs) /\ OValuesComplete(osArgs, i + 2)
    ELSE OValuesComplete(osArgs, i + 1)

\* every -o has its value, and no token is "o" or "-o"
WellFormedOArgs(osArgs) ==
    /\ OValuesComplete(osArgs, 2)
    /\ \A i \in 1..Len(AllOTokens(osArgs, 2)) :
           AllOTokens(osArgs, 2)[i] \notin {<<"o">>, <<"-", "o">>}

\* C13: for a command line without "--", prefixOArgs returns the program
\* name, then "-"+t for every non-empty comma-separated token t of every -o
\* option (both forms, any length of the command line), then the other
\* arguments in their order; with a "--" it returns the command line as it is
C13_PrefixOArgsExpansion ==
    (cli.op = "prefixOArgs" /\ WellFormedOArgs(cli.osArgs)) =>
        IF \E i \in 1..Len(cli.osArgs) : cli.osArgs[i] = <<"-", "-">>
        THEN cli.res = Returned(cli.osArgs)
        ELSE cli.res = Returned(<<cli.osArgs[1]>>
                                \o DashedNonEmpty(AllOTokens(cli.osArgs, 2))
                                \o NonOArgs(cli.osArgs, 2))

\* the password sources a command line gives
SourcesGiven(a) ==
    {s \in {"extpass", "passfile", "masterkey", "fido2"} :
        \/ s = "extpass" /\ Len(a.extpass) > 0
        \/ s = "passfile" /\ Len(a.passfile) > 0
        \/ s = "masterkey" /\ Len(a.masterkey) > 0
        \/ s = "fido2" /\ Len(a.fido2) > 0}

\* C14: a command line that gives two or more of extpass, passfile,
\* masterkey and fido2 ends option parsing with the Usage exit code, and no
\* argContainer is returned in which two of them are set
C14_ExclusivePasswordSources ==
    cli.op = "parseCliOpts" =>
        /\ (cli.parseOk /\ Cardinality(SourcesGiven(cli.parsed)) >= 2) =>
               (cli.res.exited /\ cli.res.code = Usage)
        /\ ~cli.res.exited => Cardinality(SourcesGiven(cli.res.args)) <= 1

\* C15: every argContainer returned with forcedecode set has ro set,
\* allow_other unset, ko = "noexec" and openssl set, and neither aessiv nor
\* reverse set, whatever else was passed; a command line that sets
\* forcedecode with aessiv, reverse or an explicit false -openssl exits
\* with the Usage code
C15_ForcedecodePolicy ==
    cli.op = "parseCliOpts" =>
        /\ (~cli.res.exited /\ cli.res.args.forcedecode) =>
               /\ cli.res.args.ro /\ ~cli.res.args.allow_other
               /\ cli.res.args.ko = <<"n", "o", "e", "x", "e", "c">>
               /\ cli.res.args.openssl
               /\ ~cli.res.args.aessiv /\ ~cli.res.args.reverse
        /\ (/\ cli.parseOk /\ cli.parsed.forcedecode
            /\ \/ cli.parsed.aessiv
               \/ cli.parsed.reverse
               \/ cli.parsed.opensslAuto = <<"f", "a", "l", "s", "e">>) =>
               (cli.res.exited /\ cli.res.code = Usage)

C15_Witness ==
    /\ cli.op = "parseCliOpts" /\ ~cli.res.exited
    /\ cli.osArgs = <<ProgramName, <<"-", "k", "o", "=", "s", "u", "i", "d">>, <<"-", "o">>, <<"a", "l", "l", "o", "w", "_", "o", "t", "h", "e", "r", ",", "f", "o", "r", "c", "e", "d", "e", "c", "o", "d", "e">>>>
    /\ ~cli.build.PreferOpenSSL
    /\ cli.parsed.allow_other /\ cli.parsed.ko = <<"s", "u", "i", "d">> /\ ~cli.parsed.ro
    /\ cli.res.args.forcedecode /\ cli.res.args.ro /\ ~cli.res.args.allow_other
    /\ cli.res.args.ko = <<"n", "o", "e", "x", "e", "c">> /\ cli.res.args.openssl

-----------------------------------------------------------------------------
(* Properties of WriteFile's temporary file and of key buffers *)

TmpOnDisk == disk[ConfDefaultName \o <<".tmp">>]

\* a Create or password change that starts while the temporary file exists
\* returns an error and leaves the file at the config's name as it is
BlockedByTmp ==
    (pc = "idle" /\ TmpOnDisk # NoFile) =>
        /\ pc' = "idle"
        /\ (ret' # ret /\ ret'.op \in {"create", "passwd"}) =>
               /\ ret'.err # ErrNil
               /\ ret'.cause = "open" \/ ret'.err = ErrPasswordIncorrect
               /\ ret'.op = "create" => ret'.cause = "open"
               /\ disk'[ConfDefaultName] = disk[ConfDefaultName]

\* the temporary file goes away only by the rename of the write that made
\* it, or by somebody removing it while no write runs
TmpOnlyRenamedOrRemoved ==
    (TmpOnDisk # NoFile /\ TmpOnDisk' = NoFile) =>
        \/ pc = "wf_closed" /\ disk'[ConfDefaultName] = TmpOnDisk
        \/ pc = "idle" /\ UNCHANGED <<cf, pc, ret, hist, pend>>

\* C17: while the temporary file of an interrupted or failed write exists,
\* no Create and no password change gets past the open step: each returns
\* an error (from the open, when WriteFile is reached) and the file at the
\* config's name stays as it is; WriteFile removes the temporary file on no
\* failure, and a crash leaves it
C17_TmpBlocksLaterWrites ==
    [][BlockedByTmp /\ TmpOnlyRenamedOrRemoved]_vars

C17_Witness ==
    /\ ret.op = "passwd" /\ ret.cause = "open" /\ ret.err = ErrPlain("open")
    /\ pc = "idle" /\ TmpOnDisk = PartialFile
    /\ hist.exists /\ hist.intact
    /\ LoadAndDecrypt(disk, ConfDefaultName, hist.pw).key = hist.key

\* C16: when DecryptMasterKey returns, with the key or with an error, and
\* when EncryptKey returns, the buffer of the scrypt-derived key is all zero
\* and the key encrypter is wiped; and while Create's WriteFile runs the
\* buffer of the generated master key is all zero
C16_KeyZeroization ==
    /\ mem.fn \in {"DecryptMasterKey", "EncryptKey", "Create"} =>
           /\ mem.scryptHash.len = KeyLen /\ mem.scryptHash.zero
           /\ mem.ce.wiped
    /\ (ret.op = "load" /\ Len(ret.pw) > 0 /\ Load(disk, ConfDefaultName).err = ErrNil) =>
           mem.fn = "DecryptMasterKey"
    /\ (pc \in WriteSteps /\ pend.h.origin = "passwd") => mem.fn = "EncryptKey"
    /\ (pc \in WriteSteps /\ pend.h.origin = "create") =>
           /\ mem.fn = "Create"
           /\ mem.key = Bytes(KeyLen, 0)
    /\ (ret.op = "create" /\ ret.err = ErrNil) =>
           (mem.fn = "Create" /\ mem.key = Bytes(KeyLen, 0))

C16_Witness ==
    /\ ret.op = "load" /\ ret.err = ErrPasswordIncorrect /\ ret.pw # hist.pw
    /\ mem.fn = "DecryptMasterKey"
    /\ mem.scryptHash = [len |-> KeyLen, zero |-> TRUE] /\ mem.ce.wiped

=============================================================================
